---- MODULE Spec2Model ----
(***************************************************************************)
(* A model of src/stream/raw.rs: the Operation trait (run, run_on_buffers, *)
(* reinit, flush, finish), its three implementations NoOp, Encoder and     *)
(* Decoder, and the callers that drive them.                               *)
(*                                                                         *)
(* The codec engine (zstd_safe::{CStream, DStream} and its functions) and  *)
(* parse_code are not part of raw.rs.  They are modelled from the          *)
(* collaborator contract of the specification: a framed stream that is a   *)
(* header naming the dictionary, one transformed token per payload byte,   *)
(* an end marker and a checksum, produced through an internal buffer.      *)
(***************************************************************************)
EXTENDS Integers, Sequences, FiniteSets, TLC

\* ---------------------------------------------------------------- bounds

\* Payload bytes are 1..NumBytes; 0 is the zero a fresh output buffer holds.
NumBytes == 2
\* Longest source slice a caller wraps in an InBuffer.
MaxLen == 2
\* Longest chunk of an encoded stream a caller hands to a decoder at once.
MaxWire == 1
\* Largest destination slice a caller wraps in an OutBuffer.
MaxOut == 2
\* Capacity of the compression engine's internal buffer.
BufCap == 2

\* Highest compression level the engine accepts.
MaxLevel == 1

Byte == 1..NumBytes

Min(a, b) == IF a <= b THEN a ELSE b

\* s[from+1 .. from+n], the slice &s[from..][..n] of a zero-based slice s.
Slice(s, from, n) == SubSeq(s, from + 1, from + n)

\* Sequences over S of length at most n.
SeqsUpTo(S, n) == UNION {[1..k -> S] : k \in 0..n}

\* ------------------------------------------------- results and status codes

\* io::Result: Ok(v) or Err(e).  Panic is the host language's out-of-bounds
\* fault, which is no return value at all.
Ok(v) == [tag |-> "Ok", val |-> v]
Err(c) == [tag |-> "Err", val |-> c]
Panic == [tag |-> "Panic", val |-> 0]
\* The unit value of Ok(()).
Unit == 0

\* The engine reports failure as a status code at or above ErrorBase (the
\* engine's "negated error number" range of usize); anything below is a value.
ErrorBase == 1000
ErrGeneric == ErrorBase + 1
ErrDictionary == ErrorBase + 2
ErrCorrupted == ErrorBase + 3
ErrChecksum == ErrorBase + 4
ErrStage == ErrorBase + 5
ErrParameter == ErrorBase + 6

is_error(code) == code >= ErrorBase

\* parse_code: a status code becomes an io::Result.
parse_code(code) == IF is_error(code) THEN Err(code) ELSE Ok(code)

\* ------------------------------------------------------------------ cursors

\* InBuffer::around(src): a cursor at position 0.
InBufferAround(src) == [src |-> src, pos |-> 0]
\* OutBuffer::around(dst): a cursor at position 0.
OutBufferAround(dst) == [dst |-> dst, pos |-> 0]

\* dst with dst[at .. at+Len(bytes)] overwritten by bytes (copy_from_slice).
CopyFromSlice(dst, at, bytes) ==
    [i \in 1..Len(dst) |->
        IF i > at /\ i <= at + Len(bytes) THEN bytes[i - at] ELSE dst[i]]

\* Bytes moved from the head of buf into output's writable region.
Drain(buf, output) ==
    LET m == Min(Len(buf), Len(output.dst) - output.pos)
    IN  [buf |-> SubSeq(buf, m + 1, Len(buf)),
         output |-> [dst |-> CopyFromSlice(output.dst, output.pos, SubSeq(buf, 1, m)),
                     pos |-> output.pos + m]]

\* ------------------------------------------------------------- wire format

\* Dictionaries the engine accepts: none (empty) or a one-byte dictionary.
ValidDict(d) == Len(d) <= 1
DictId(d) == IF d = <<>> THEN 0 ELSE d[1]
\* Compression levels the engine accepts.
ValidLevel(level) == level \in 1..MaxLevel

HDR(id) == 10 + id
BODY(x) == 20 + x
END == 30
CK(s) == 40 + s
IsHDR(t) == t \in {HDR(i) : i \in 0..NumBytes}
IsBODY(t) == t \in {BODY(x) : x \in 0..(NumBytes - 1)}
IsCK(t) == t \in {CK(s) : s \in 0..1}

\* The token of payload byte b under dictionary id, and its inverse.
Xform(b, id) == (b - 1 + id) % NumBytes
Unxform(x, id) == ((x + NumBytes - id) % NumBytes) + 1
\* The running checksum (a parity) after payload byte b.
CkStep(sum, b) == (sum + b) % 2

RECURSIVE CkAll(_, _)
CkAll(sum, bytes) ==
    IF bytes = <<>> THEN sum ELSE CkAll(CkStep(sum, Head(bytes)), Tail(bytes))

\* ------------------------------------------------------------ codec engine

\* An engine context.  log lists the engine functions called on it, each with
\* the status code it reported, since the caller last cleared it; fault makes
\* the next engine call fail (the engine is opaque: it may report a failure of
\* its own, such as an allocation failure, on any call).
Context(dict, level, stage) ==
    [dict |-> dict, level |-> level, stage |-> stage, buf |-> <<>>, sum |-> 0,
     log |-> <<>>, fault |-> FALSE]

\* The outcome r of engine function fn, entered in the context's log.
Report(fn, r) ==
    [r EXCEPT !.ctx = [@ EXCEPT !.log = Append(@, [fn |-> fn, code |-> r.code]),
                                !.fault = FALSE]]

create_cstream == Context(<<>>, 0, "Created")
create_dstream == Context(<<>>, 0, "Created")

\* The hint of the decompressor: the tokens a frame still needs at least.
DHint(stage) ==
    CASE stage = "Ready" -> 3
      [] stage = "Streaming" -> 2
      [] stage = "Checksum" -> 1
      [] OTHER -> 0

init_cstream_using_dict(ctx, dictionary, level) ==
    Report("init_cstream_using_dict",
        IF ctx.fault THEN [ctx |-> ctx, code |-> ErrGeneric]
        ELSE IF ~ValidLevel(level) THEN [ctx |-> ctx, code |-> ErrParameter]
        ELSE IF ~ValidDict(dictionary) THEN [ctx |-> ctx, code |-> ErrDictionary]
        ELSE [ctx |-> [ctx EXCEPT !.dict = dictionary, !.level = level,
                                  !.stage = "Fresh"],
              code |-> 0])

init_dstream_using_dict(ctx, dictionary) ==
    Report("init_dstream_using_dict",
        IF ctx.fault THEN [ctx |-> ctx, code |-> ErrGeneric]
        ELSE IF ~ValidDict(dictionary) THEN [ctx |-> ctx, code |-> ErrDictionary]
        ELSE [ctx |-> [ctx EXCEPT !.dict = dictionary, !.stage = "Ready"],
              code |-> DHint("Ready")])

\* The hint of the compressor: the room left in its buffer, never 0.
CHint(buf) == IF BufCap - Len(buf) = 0 THEN BufCap ELSE BufCap - Len(buf)

\* The header goes into the buffer on the first call; then as many input bytes
\* as the buffer has room for are consumed, one token each; then the buffer is
\* emitted as far as the output has room.
compress_stream(ctx, output, input) ==
    LET id == DictId(ctx.dict)
        hdr == IF ctx.stage = "Fresh" THEN <<HDR(id)>> ELSE <<>>
        buf1 == ctx.buf \o hdr
        room == IF BufCap > Len(buf1) THEN BufCap - Len(buf1) ELSE 0
        k == Min(Len(input.src) - input.pos, room)
        taken == Slice(input.src, input.pos, k)
        toks == [i \in 1..k |-> BODY(Xform(taken[i], id))]
        d == Drain(buf1 \o toks, output)
    IN  Report("compress_stream",
            IF ctx.fault
            THEN [ctx |-> ctx, output |-> output, input |-> input, code |-> ErrGeneric]
            ELSE IF ctx.stage \notin {"Fresh", "Streaming"}
            THEN [ctx |-> ctx, output |-> output, input |-> input, code |-> ErrStage]
            ELSE [ctx |-> [ctx EXCEPT !.stage = "Streaming", !.buf = d.buf,
                                      !.sum = CkAll(ctx.sum, taken)],
                  output |-> d.output,
                  input |-> [input EXCEPT !.pos = @ + k],
                  code |-> CHint(d.buf)])

\* Emits the buffer as far as the output has room; reports what is left.
flush_stream(ctx, output) ==
    LET d == Drain(ctx.buf, output)
    IN  Report("flush_stream",
            IF ctx.fault THEN [ctx |-> ctx, output |-> output, code |-> ErrGeneric]
            ELSE IF ctx.stage \notin {"Fresh", "Streaming", "Finishing", "Done"}
            THEN [ctx |-> ctx, output |-> output, code |-> ErrStage]
            ELSE [ctx |-> [ctx EXCEPT !.buf = d.buf], output |-> d.output,
                  code |-> Len(d.buf)])

\* The first call puts the footer (end marker, checksum) into the buffer;
\* every call emits the buffer as far as the output has room and reports what
\* is left.  The frame is done when nothing is left.
end_stream(ctx, output) ==
    LET hdr == IF ctx.stage = "Fresh" THEN <<HDR(DictId(ctx.dict))>> ELSE <<>>
        footer == IF ctx.stage \in {"Fresh", "Streaming"}
                  THEN hdr \o <<END, CK(ctx.sum)>> ELSE <<>>
        d == Drain(ctx.buf \o footer, output)
    IN  Report("end_stream",
            IF ctx.fault THEN [ctx |-> ctx, output |-> output, code |-> ErrGeneric]
            ELSE IF ctx.stage \notin {"Fresh", "Streaming", "Finishing"}
            THEN [ctx |-> ctx, output |-> output, code |-> ErrStage]
            ELSE [ctx |-> [ctx EXCEPT !.buf = d.buf,
                                      !.stage = IF d.buf = <<>> THEN "Done"
                                                ELSE "Finishing"],
                  output |-> d.output,
                  code |-> Len(d.buf)])

\* One token after another from the unread input, until the input ends, the
\* output has no room for a decoded byte, the frame completes or the stream
\* turns out corrupted.  st is [stage, sum, input, output, code].
RECURSIVE DecodeFrom(_, _)
DecodeFrom(id, st) ==
    LET t == st.input.src[st.input.pos + 1]
        eat == [st.input EXCEPT !.pos = @ + 1]
        fail(code) == [st EXCEPT !.stage = "Error", !.code = code]
    IN  IF st.input.pos >= Len(st.input.src) THEN st
        ELSE CASE st.stage = "Ready" ->
                    IF ~IsHDR(t) THEN fail(ErrCorrupted)
                    ELSE IF t # HDR(id) THEN fail(ErrDictionary)
                    ELSE DecodeFrom(id, [st EXCEPT !.stage = "Streaming", !.sum = 0,
                                                   !.input = eat])
               [] st.stage = "Streaming" ->
                    IF t = END
                    THEN DecodeFrom(id, [st EXCEPT !.stage = "Checksum", !.input = eat])
                    ELSE IF ~IsBODY(t) THEN fail(ErrCorrupted)
                    ELSE IF st.output.pos >= Len(st.output.dst) THEN st
                    ELSE LET b == Unxform(t - BODY(0), id)
                         IN  DecodeFrom(id,
                                [st EXCEPT !.sum = CkStep(@, b), !.input = eat,
                                           !.output = [dst |-> CopyFromSlice(@.dst, @.pos, <<b>>),
                                                       pos |-> @.pos + 1]])
               [] st.stage = "Checksum" ->
                    IF ~IsCK(t) THEN fail(ErrCorrupted)
                    ELSE IF t # CK(st.sum) THEN fail(ErrChecksum)
                    ELSE [st EXCEPT !.stage = "FrameComplete", !.input = eat]
               [] st.stage = "FrameComplete" -> fail(ErrStage)
               [] OTHER -> fail(ErrGeneric)

decompress_stream(ctx, output, input) ==
    LET st == DecodeFrom(DictId(ctx.dict),
                         [stage |-> ctx.stage, sum |-> ctx.sum, input |-> input,
                          output |-> output, code |-> 0])
    IN  Report("decompress_stream",
            IF ctx.fault
               \/ ctx.stage \notin {"Ready", "Streaming", "Checksum", "FrameComplete"}
            THEN [ctx |-> ctx, output |-> output, input |-> input, code |-> ErrGeneric]
            ELSE [ctx |-> [ctx EXCEPT !.stage = st.stage, !.sum = st.sum],
                  output |-> st.output,
                  input |-> st.input,
                  code |-> IF st.stage = "Error" THEN st.code ELSE DHint(st.stage)])

\* A new frame may begin; the dictionary stays.
reset_dstream(ctx) ==
    Report("reset_dstream",
        IF ctx.fault THEN [ctx |-> ctx, code |-> ErrGeneric]
        ELSE [ctx |-> [ctx EXCEPT !.stage = "Ready", !.sum = 0],
              code |-> DHint("Ready")])

\* --------------------------------------------------------- trait Operation

\* What a method leaves behind: the operation's context, the two cursors
\* and the io::Result it returns.
Outcome(context, input, output, res) ==
    [context |-> context, input |-> input, output |-> output, res |-> res]

\* The default reinit, flush and finish.
OperationReinit(context) == [context |-> context, res |-> Ok(Unit)]
OperationFlush(context, output) ==
    [context |-> context, output |-> output, res |-> Ok(0)]
OperationFinish(context, output) ==
    [context |-> context, output |-> output, res |-> Ok(0)]

\* ------------------------------------------------------------------- NoOp

\* NoOp owns no engine context.
NoContext == Context(<<>>, 0, "None")

\* A slip: the length of the source alone.
NoOpLen_SrcOnly(srcLen, dstLen) == srcLen

\* A slip: nothing is copied.
NoOpLen_Zero(srcLen, dstLen) == 0

NoOpLen(srcLen, dstLen) == Min(srcLen, dstLen)

\* A slip: the positions are set to the length copied, not advanced by it.
NoOpRun_SetPos(context, input, output) ==
    LET len == Min(Len(input.src) - input.pos, Len(output.dst) - output.pos)
    IN  Outcome(context,
                [input EXCEPT !.pos = len],
                [dst |-> CopyFromSlice(output.dst, output.pos,
                                       Slice(input.src, input.pos, len)),
                 pos |-> len],
                Ok(0))

\* A slip: the whole unread input counts as consumed.
NoOpRun_ConsumeAll(context, input, output) ==
    LET len == Min(Len(input.src) - input.pos, Len(output.dst) - output.pos)
    IN  Outcome(context,
                [input EXCEPT !.pos = Len(input.src)],
                [dst |-> CopyFromSlice(output.dst, output.pos,
                                       Slice(input.src, input.pos, len)),
                 pos |-> output.pos + len],
                Ok(0))

\* A slip: a step that copies nothing is reported as an error.
NoOpRun_ErrOnNothing(context, input, output) ==
    LET len == Min(Len(input.src) - input.pos, Len(output.dst) - output.pos)
    IN  Outcome(context,
                [input EXCEPT !.pos = @ + len],
                [dst |-> CopyFromSlice(output.dst, output.pos,
                                       Slice(input.src, input.pos, len)),
                 pos |-> output.pos + len],
                IF len = 0 THEN Err(ErrGeneric) ELSE Ok(0))

\* A slip: the copy lands at the start of the destination, not at its position.
NoOpRun_CopyToStart(context, input, output) ==
    LET len == Min(Len(input.src) - input.pos, Len(output.dst) - output.pos)
    IN  Outcome(context,
                [input EXCEPT !.pos = @ + len],
                [dst |-> CopyFromSlice(output.dst, 0, Slice(input.src, input.pos, len)),
                 pos |-> output.pos + len],
                Ok(0))

\* A slip: the hint is the number of input bytes still unread.
NoOpRun_HintUnread(context, input, output) ==
    IF input.pos > Len(input.src) \/ output.pos > Len(output.dst)
    THEN Outcome(context, input, output, Panic)
    ELSE LET len == NoOpLen(Len(input.src) - input.pos, Len(output.dst) - output.pos)
             src == Slice(input.src, input.pos, len)
         IN  Outcome(context,
                     [input EXCEPT !.pos = @ + len],
                     [dst |-> CopyFromSlice(output.dst, output.pos, src),
                      pos |-> output.pos + len],
                     Ok(Len(input.src) - input.pos - len))

NoOpRun(context, input, output) ==
    LET srcLen == Len(input.src) - input.pos
        dstLen == Len(output.dst) - output.pos
        len == NoOpLen(srcLen, dstLen)
        src == Slice(input.src, input.pos, len)
    IN  IF input.pos > Len(input.src) \/ output.pos > Len(output.dst)
           \/ len > srcLen \/ len > dstLen
        THEN Outcome(context, input, output, Panic)
        ELSE Outcome(context,
                     [input EXCEPT !.pos = @ + len],
                     [dst |-> CopyFromSlice(output.dst, output.pos, src),
                      pos |-> output.pos + len],
                     Ok(0))

\* ---------------------------------------------------------------- Decoder

\* A slip: the context is initialised without the dictionary.
DecoderWithDictionary_NoDict(dictionary) ==
    LET r == init_dstream_using_dict(create_dstream, <<>>)
        res == parse_code(r.code)
    IN  IF res.tag = "Ok" THEN [context |-> r.ctx, res |-> Ok(Unit)]
        ELSE [context |-> r.ctx, res |-> res]

DecoderWithDictionary(dictionary) ==
    LET r == init_dstream_using_dict(create_dstream, dictionary)
        res == parse_code(r.code)
    IN  IF res.tag = "Ok" THEN [context |-> r.ctx, res |-> Ok(Unit)]
        ELSE [context |-> r.ctx, res |-> res]

DecoderNew == DecoderWithDictionary(<<>>)

DecoderRun(context, input, output) ==
    LET r == decompress_stream(context, output, input)
    IN  Outcome(r.ctx, r.input, r.output, parse_code(r.code))

\* A slip: reinit is left at the default of the trait, which resets nothing.
DecoderReinit_Default(context) == [context |-> context, res |-> Ok(Unit)]

\* A slip: the status of the reset is dropped.
DecoderReinit_Swallow(context) ==
    [context |-> reset_dstream(context).ctx, res |-> Ok(Unit)]

\* A slip: reinit initialises the context anew, without a dictionary.
DecoderReinit_Reconstructs(context) ==
    LET r == init_dstream_using_dict(context, <<>>)
        res == parse_code(r.code)
    IN  [context |-> r.ctx, res |-> IF res.tag = "Ok" THEN Ok(Unit) ELSE res]

DecoderReinit(context) ==
    LET r == reset_dstream(context)
        res == parse_code(r.code)
    IN  [context |-> r.ctx, res |-> IF res.tag = "Ok" THEN Ok(Unit) ELSE res]

\* ---------------------------------------------------------------- Encoder

\* A slip: the context is initialised without the dictionary.
EncoderWithDictionary_NoDict(level, dictionary) ==
    LET r == init_cstream_using_dict(create_cstream, <<>>, level)
        res == parse_code(r.code)
    IN  IF res.tag = "Ok" THEN [context |-> r.ctx, res |-> Ok(Unit)]
        ELSE [context |-> r.ctx, res |-> res]

\* A slip: the status of the initialisation is not looked at.
EncoderWithDictionary_Unchecked(level, dictionary) ==
    [context |-> init_cstream_using_dict(create_cstream, dictionary, level).ctx,
     res |-> Ok(Unit)]

EncoderWithDictionary(level, dictionary) ==
    LET r == init_cstream_using_dict(create_cstream, dictionary, level)
        res == parse_code(r.code)
    IN  IF res.tag = "Ok" THEN [context |-> r.ctx, res |-> Ok(Unit)]
        ELSE [context |-> r.ctx, res |-> res]

EncoderNew(level) == EncoderWithDictionary(level, <<>>)

EncoderRun(context, input, output) ==
    LET r == compress_stream(context, output, input)
    IN  Outcome(r.ctx, r.input, r.output, parse_code(r.code))

\* A slip: flush calls the function that ends the frame.
EncoderFlush_Ends(context, output) ==
    LET r == end_stream(context, output)
    IN  [context |-> r.ctx, output |-> r.output, res |-> parse_code(r.code)]

EncoderFlush(context, output) ==
    LET r == flush_stream(context, output)
    IN  [context |-> r.ctx, output |-> r.output, res |-> parse_code(r.code)]

\* A slip: finish calls the function that only flushes.
EncoderFinish_Flushes(context, output) ==
    LET r == flush_stream(context, output)
    IN  [context |-> r.ctx, output |-> r.output, res |-> parse_code(r.code)]

EncoderFinish(context, output) ==
    LET r == end_stream(context, output)
    IN  [context |-> r.ctx, output |-> r.output, res |-> parse_code(r.code)]

\* ------------------------------------------------------- dynamic dispatch

Run(kind, context, input, output) ==
    CASE kind = "NoOp" -> NoOpRun(context, input, output)
      [] kind = "Encoder" -> EncoderRun(context, input, output)
      [] kind = "Decoder" -> DecoderRun(context, input, output)

Flush(kind, context, output) ==
    IF kind = "Encoder" THEN EncoderFlush(context, output)
    ELSE OperationFlush(context, output)

\* A slip: Encoder is left with the default finish of the trait.
Finish_NoOverride(kind, context, output) == OperationFinish(context, output)

Finish(kind, context, output) ==
    IF kind = "Encoder" THEN EncoderFinish(context, output)
    ELSE OperationFinish(context, output)

Reinit(kind, context) ==
    IF kind = "Decoder" THEN DecoderReinit(context)
    ELSE OperationReinit(context)

\* Status { remaining, bytes_read, bytes_written }.
Status(remaining, bytes_read, bytes_written) ==
    [remaining |-> remaining, bytes_read |-> bytes_read,
     bytes_written |-> bytes_written]

\* A slip: bytes_read and bytes_written the wrong way round.
RunOnBuffers_Swapped(kind, context, src, dst) ==
    LET r == Run(kind, context, InBufferAround(src), OutBufferAround(dst))
    IN  [context |-> r.context, input |-> r.input, output |-> r.output,
         res |-> IF r.res.tag = "Ok"
                 THEN Ok(Status(r.res.val, r.output.pos, r.input.pos))
                 ELSE r.res]

\* run_on_buffers: fresh cursors, one run, and the `?` on its result.
RunOnBuffers(kind, context, src, dst) ==
    LET input == InBufferAround(src)
        output == OutBufferAround(dst)
        r == Run(kind, context, input, output)
    IN  [context |-> r.context, input |-> r.input, output |-> r.output,
         res |-> IF r.res.tag = "Ok"
                 THEN Ok(Status(r.res.val, r.input.pos, r.output.pos))
                 ELSE r.res]

\* ------------------------------------------------------------- the caller

VARIABLES
    op,      \* the Operation the caller holds: its kind and engine context
    input,   \* the caller's InBuffer
    output,  \* the caller's OutBuffer
    last,    \* the last call: its name, whether the engine failed, its result
    cyc      \* the encode-then-decode cycle a test drives; idle otherwise

vars == <<op, input, output, last, cyc>>

Zeros(n) == [i \in 1..n |-> 0]

Tokens ==
    {HDR(i) : i \in 0..NumBytes} \cup {BODY(x) : x \in 0..(NumBytes - 1)}
        \cup {END} \cup {CK(c) : c \in 0..1}

\* What a caller passes: levels and dictionaries, accepted and not, payloads
\* to an encoder or a NoOp, and any bytes at all to a decoder.
Levels == 1..(MaxLevel + 1)
Dicts == {<<>>, <<1>>, <<1, 1>>}
Sources(kind) ==
    IF kind = "Decoder" THEN SeqsUpTo(Tokens, MaxWire) ELSE SeqsUpTo(Byte, MaxLen)

NoCall == [call |-> "none", fault |-> FALSE, res |-> Ok(Unit)]

Called(name, fault, res) == [call |-> name, fault |-> fault, res |-> res]

\* The context as a call finds it: the log cleared, the engine about to fail
\* or not.  Only an operation that owns an engine can meet an engine failure.
Before(fault) == [op.context EXCEPT !.log = <<>>, !.fault = fault]
After(context) == [context EXCEPT !.fault = FALSE]
Faults == IF op.kind = "NoOp" THEN {FALSE} ELSE BOOLEAN

\* No cycle is being driven.
Idle ==
    [pc |-> "idle", data |-> <<>>, frame |-> 0, level |-> 0, encDict |-> <<>>,
     decDict |-> <<>>, cap |-> 0, wire |-> <<>>, plain |-> <<>>]

Init ==
    /\ cyc = Idle
    /\ op = [kind |-> "None", context |-> NoContext]
    /\ input = InBufferAround(<<>>)
    /\ output = OutBufferAround(<<>>)
    /\ last = NoCall

NewNoOp ==
    /\ op.kind = "None"
    /\ op' = [kind |-> "NoOp", context |-> NoContext]
    /\ last' = Called("NoOp", FALSE, Ok(Unit))
    /\ UNCHANGED <<input, output, cyc>>

Constructed(name, kind, r) ==
    /\ op.kind = "None"
    /\ op' = IF r.res.tag = "Ok" THEN [kind |-> kind, context |-> r.context] ELSE op
    /\ last' = Called(name, FALSE, r.res)
    /\ UNCHANGED <<input, output, cyc>>

CallEncoderNew ==
    \E level \in Levels : Constructed("Encoder::new", "Encoder", EncoderNew(level))

CallEncoderWithDictionary ==
    \E level \in Levels, dictionary \in Dicts :
        Constructed("Encoder::with_dictionary", "Encoder",
                    EncoderWithDictionary(level, dictionary))

CallDecoderNew == Constructed("Decoder::new", "Decoder", DecoderNew)

CallDecoderWithDictionary ==
    \E dictionary \in Dicts :
        Constructed("Decoder::with_dictionary", "Decoder",
                    DecoderWithDictionary(dictionary))

\* The caller wraps a new source slice.
SupplyInput ==
    /\ op.kind # "None"
    /\ \E src \in Sources(op.kind) : input' = InBufferAround(src)
    /\ last' = NoCall
    /\ UNCHANGED <<op, output, cyc>>

\* The caller wraps a new, zeroed destination slice.
SupplyOutput ==
    /\ op.kind # "None"
    /\ \E cap \in 0..MaxOut : output' = OutBufferAround(Zeros(cap))
    /\ last' = NoCall
    /\ UNCHANGED <<op, input, cyc>>

CallRun ==
    /\ op.kind # "None"
    /\ \E fault \in Faults :
         LET r == Run(op.kind, Before(fault), input, output)
         IN  /\ op' = [op EXCEPT !.context = After(r.context)]
             /\ input' = r.input
             /\ output' = r.output
             /\ last' = Called("run", fault, r.res)
    /\ UNCHANGED cyc

CallRunOnBuffers ==
    /\ op.kind # "None"
    /\ \E fault \in Faults :
         LET r == RunOnBuffers(op.kind, Before(fault), input.src, output.dst)
         IN  /\ op' = [op EXCEPT !.context = After(r.context)]
             /\ input' = r.input
             /\ output' = r.output
             /\ last' = Called("run_on_buffers", fault, r.res)
    /\ UNCHANGED cyc

CallFlush ==
    /\ op.kind # "None"
    /\ \E fault \in Faults :
         LET r == Flush(op.kind, Before(fault), output)
         IN  /\ op' = [op EXCEPT !.context = After(r.context)]
             /\ output' = r.output
             /\ last' = Called("flush", fault, r.res)
             /\ UNCHANGED <<input, cyc>>

CallFinish ==
    /\ op.kind # "None"
    /\ \E fault \in Faults :
         LET r == Finish(op.kind, Before(fault), output)
         IN  /\ op' = [op EXCEPT !.context = After(r.context)]
             /\ output' = r.output
             /\ last' = Called("finish", fault, r.res)
             /\ UNCHANGED <<input, cyc>>

CallReinit ==
    /\ op.kind # "None"
    /\ \E fault \in Faults :
         LET r == Reinit(op.kind, Before(fault))
         IN  /\ op' = [op EXCEPT !.context = After(r.context)]
             /\ last' = Called("reinit", fault, r.res)
             /\ UNCHANGED <<input, output, cyc>>

Next ==
    \/ NewNoOp
    \/ CallEncoderNew
    \/ CallEncoderWithDictionary
    \/ CallDecoderNew
    \/ CallDecoderWithDictionary
    \/ SupplyInput
    \/ SupplyOutput
    \/ CallRun
    \/ CallRunOnBuffers
    \/ CallFlush
    \/ CallFinish
    \/ CallReinit

Spec == Init /\ [][Next]_vars

\* The caller of a NoOp alone.
NextNoOp ==
    \/ NewNoOp
    \/ SupplyInput
    \/ SupplyOutput
    \/ CallRun
    \/ CallRunOnBuffers
    \/ CallFlush
    \/ CallFinish
    \/ CallReinit

SpecNoOp == Init /\ [][NextNoOp]_vars

\* ------------------------------------------------------------- test_cycle

\* The cycle of tests::test_cycle, for any payloads, configuration and output
\* capacity: each payload is compressed into a frame of its own by an encoder
\* of its own (run until the input is exhausted, then finish until it returns
\* 0), the frames are concatenated, and one decoder decompresses them (run
\* until the input is exhausted, reinit when run reports 0 with input left).
\* Every result is unwrapped: an Err ends the cycle as failed.  The caller
\* takes the bytes out of an output buffer that has filled up and goes on with
\* an empty one.

Payloads == SeqsUpTo(Byte, MaxLen)
GoodDicts == {d \in {<<>>} \cup {<<b>> : b \in Byte} : ValidDict(d)}
GoodLevels == {l \in Levels : ValidLevel(l)}

RECURSIVE Concat(_)
Concat(seqs) == IF seqs = <<>> THEN <<>> ELSE Head(seqs) \o Concat(Tail(seqs))

\* The bytes written so far: output.as_slice().
AsSlice(out) == SubSeq(out.dst, 1, out.pos)

CycleStart(datas) ==
    \E data \in datas, level \in GoodLevels, encDict \in GoodDicts,
       decDict \in GoodDicts, cap \in 1..MaxOut :
        /\ cyc = [pc |-> "encode", data |-> data, frame |-> 1, level |-> level,
                  encDict |-> encDict, decDict |-> decDict, cap |-> cap,
                  wire |-> <<>>, plain |-> <<>>]
        /\ op = [kind |-> "Encoder",
                 context |-> EncoderWithDictionary(level, encDict).context]
        /\ input = InBufferAround(data[1])
        /\ output = OutBufferAround(Zeros(cap))
        /\ last = NoCall

\* encoder.run(&mut input, &mut output).unwrap(), and the test of the loop.
CycleEncodeRun ==
    /\ cyc.pc = "encode"
    /\ LET r == EncoderRun(Before(FALSE), input, output)
       IN  /\ op' = [op EXCEPT !.context = r.context]
           /\ input' = r.input
           /\ output' = r.output
           /\ last' = Called("run", FALSE, r.res)
           /\ cyc' = [cyc EXCEPT !.pc = IF r.res.tag # "Ok" THEN "failed"
                                        ELSE IF r.input.pos = Len(r.input.src)
                                        THEN "finish" ELSE "encode"]

\* encoder.finish(&mut output).unwrap(), until it returns 0.
CycleFinish ==
    /\ cyc.pc = "finish"
    /\ LET r == EncoderFinish(Before(FALSE), output)
       IN  /\ op' = [op EXCEPT !.context = r.context]
           /\ output' = r.output
           /\ last' = Called("finish", FALSE, r.res)
           /\ cyc' = [cyc EXCEPT !.pc = IF r.res.tag # "Ok" THEN "failed"
                                        ELSE IF r.res.val = 0 THEN "finished"
                                        ELSE "finish"]
    /\ UNCHANGED input

\* The output buffer is full: its bytes join the encoded stream.
CycleTakeEncoded ==
    /\ cyc.pc \in {"encode", "finish"}
    /\ output.pos = Len(output.dst)
    /\ cyc' = [cyc EXCEPT !.wire = @ \o AsSlice(output)]
    /\ output' = OutBufferAround(Zeros(cyc.cap))
    /\ UNCHANGED <<op, input, last>>

\* The frame is complete: a further payload gets an encoder of its own.
CycleNextFrame ==
    /\ cyc.pc = "finished"
    /\ cyc.frame < Len(cyc.data)
    /\ cyc' = [cyc EXCEPT !.pc = "encode", !.frame = @ + 1,
                          !.wire = @ \o AsSlice(output)]
    /\ op' = [op EXCEPT !.context =
                 EncoderWithDictionary(cyc.level, cyc.encDict).context]
    /\ input' = InBufferAround(cyc.data[cyc.frame + 1])
    /\ output' = OutBufferAround(Zeros(cyc.cap))
    /\ last' = NoCall

\* All frames are complete: the encoded stream goes to the decoder.
CycleStartDecode ==
    /\ cyc.pc = "finished"
    /\ cyc.frame = Len(cyc.data)
    /\ LET wire == cyc.wire \o AsSlice(output)
       IN  /\ cyc' = [cyc EXCEPT !.pc = "decode", !.wire = wire]
           /\ input' = InBufferAround(wire)
    /\ op' = [kind |-> "Decoder",
              context |-> DecoderWithDictionary(cyc.decDict).context]
    /\ output' = OutBufferAround(Zeros(cyc.cap))
    /\ last' = NoCall

\* decoder.run(&mut input, &mut output).unwrap(), and the test of the loop.
CycleDecodeRun ==
    /\ cyc.pc = "decode"
    /\ LET r == DecoderRun(Before(FALSE), input, output)
           exhausted == r.input.pos = Len(r.input.src)
       IN  /\ op' = [op EXCEPT !.context = r.context]
           /\ input' = r.input
           /\ output' = r.output
           /\ last' = Called("run", FALSE, r.res)
           /\ cyc' = [cyc EXCEPT
                        !.pc = IF r.res.tag # "Ok" THEN "failed"
                               ELSE IF exhausted THEN "done"
                               ELSE IF r.res.val = 0 THEN "reinit"
                               ELSE "decode",
                        !.plain = IF r.res.tag = "Ok" /\ exhausted
                                  THEN @ \o AsSlice(r.output) ELSE @]

\* run has reported 0 and input is left: decoder.reinit().unwrap().
CycleReinit ==
    /\ cyc.pc = "reinit"
    /\ LET r == DecoderReinit(Before(FALSE))
       IN  /\ op' = [op EXCEPT !.context = r.context]
           /\ last' = Called("reinit", FALSE, r.res)
           /\ cyc' = [cyc EXCEPT !.pc = IF r.res.tag # "Ok" THEN "failed"
                                        ELSE "decode"]
    /\ UNCHANGED <<input, output>>

\* The output buffer is full: its bytes join the decoded data.
CycleTakeDecoded ==
    /\ cyc.pc \in {"decode", "reinit"}
    /\ output.pos = Len(output.dst)
    /\ cyc' = [cyc EXCEPT !.plain = @ \o AsSlice(output)]
    /\ output' = OutBufferAround(Zeros(cyc.cap))
    /\ UNCHANGED <<op, input, last>>

\* One payload, one frame.
CycleInit == CycleStart({<<p>> : p \in Payloads})

CycleNext ==
    \/ CycleEncodeRun
    \/ CycleFinish
    \/ CycleTakeEncoded
    \/ CycleStartDecode
    \/ CycleDecodeRun
    \/ CycleTakeDecoded

SpecCycle == CycleInit /\ [][CycleNext]_vars

\* Two payloads, two frames, one decoder with the encoders' dictionary.
ConcatInit ==
    /\ CycleStart({<<p, q>> : p \in Payloads, q \in Payloads})
    /\ cyc.decDict = cyc.encDict

ConcatNext ==
    \/ CycleEncodeRun
    \/ CycleFinish
    \/ CycleTakeEncoded
    \/ CycleNextFrame
    \/ CycleStartDecode
    \/ CycleDecodeRun
    \/ CycleReinit
    \/ CycleTakeDecoded

SpecConcat == ConcatInit /\ [][ConcatNext]_vars

\* ------------------------------------------------------ draining an encoder

\* A caller that feeds a payload to an Encoder with run, flushes whenever it
\* likes by calling flush until it returns 0, and ends the frame by calling
\* finish until it returns 0, after which it calls nothing more.  Every call
\* gets an output buffer with free space: a buffer that has filled up is taken
\* away and replaced by an empty one.  Every result is unwrapped.

\* The frame the engine makes of a payload under a dictionary.
EncodedFrame(data, dictionary) ==
    LET id == DictId(dictionary)
    IN  <<HDR(id)>> \o [i \in 1..Len(data) |-> BODY(Xform(data[i], id))]
            \o <<END, CK(CkAll(0, data))>>

\* The level tests::test_cycle gives its encoder.
TestLevel == 1

DrainInit ==
    \E data \in Payloads, level \in {TestLevel}, dictionary \in GoodDicts,
       cap \in 1..MaxOut :
        /\ cyc = [pc |-> "feed", data |-> <<data>>, frame |-> 1, level |-> level,
                  encDict |-> dictionary, decDict |-> <<>>, cap |-> cap,
                  wire |-> <<>>, plain |-> <<>>]
        /\ op = [kind |-> "Encoder",
                 context |-> EncoderWithDictionary(level, dictionary).context]
        /\ input = InBufferAround(data)
        /\ output = OutBufferAround(Zeros(cap))
        /\ last = NoCall

\* encoder.run(&mut input, &mut output).unwrap(); the caller may flush next.
DrainRun ==
    /\ cyc.pc = "feed"
    /\ input.pos < Len(input.src)
    /\ output.pos < Len(output.dst)
    /\ \E r \in {EncoderRun(Before(FALSE), input, output)} :
           /\ op' = [op EXCEPT !.context = r.context]
           /\ input' = r.input
           /\ output' = r.output
           /\ last' = Called("run", FALSE, r.res)
           /\ \E next \in {"feed", "flush"} :
                cyc' = [cyc EXCEPT !.pc = IF r.res.tag # "Ok" THEN "failed" ELSE next]

\* encoder.flush(&mut output).unwrap(), until it returns 0.
DrainFlush ==
    /\ cyc.pc = "flush"
    /\ output.pos < Len(output.dst)
    /\ \E r \in {EncoderFlush(Before(FALSE), output)} :
           /\ op' = [op EXCEPT !.context = r.context]
           /\ output' = r.output
           /\ last' = Called("flush", FALSE, r.res)
           /\ cyc' = [cyc EXCEPT !.pc = IF r.res.tag # "Ok" THEN "failed"
                                        ELSE IF r.res.val = 0 THEN "feed"
                                        ELSE "flush"]
    /\ UNCHANGED input

\* The input is exhausted: the caller turns to finish.
DrainEndOfInput ==
    /\ cyc.pc = "feed"
    /\ input.pos = Len(input.src)
    /\ cyc' = [cyc EXCEPT !.pc = "finish"]
    /\ UNCHANGED <<op, input, output, last>>

\* encoder.finish(&mut output).unwrap(), until it returns 0.
DrainFinish ==
    /\ cyc.pc = "finish"
    /\ output.pos < Len(output.dst)
    /\ \E r \in {EncoderFinish(Before(FALSE), output)} :
           /\ op' = [op EXCEPT !.context = r.context]
           /\ output' = r.output
           /\ last' = Called("finish", FALSE, r.res)
           /\ cyc' = [cyc EXCEPT !.pc = IF r.res.tag # "Ok" THEN "failed"
                                        ELSE IF r.res.val = 0 THEN "finished"
                                        ELSE "finish"]
    /\ UNCHANGED input

\* The output buffer is full: the caller takes its bytes and goes on with an
\* empty one.
DrainTake ==
    /\ cyc.pc \in {"feed", "flush", "finish"}
    /\ output.pos = Len(output.dst)
    /\ cyc' = [cyc EXCEPT !.wire = @ \o AsSlice(output)]
    /\ output' = OutBufferAround(Zeros(cyc.cap))
    /\ UNCHANGED <<op, input, last>>

DrainNext ==
    \/ DrainRun
    \/ DrainFlush
    \/ DrainEndOfInput
    \/ DrainFinish
    \/ DrainTake

\* The caller's loops are straight-line code: while a step is possible, one
\* is taken.
SpecDrain == DrainInit /\ [][DrainNext]_vars /\ WF_vars(DrainNext)

\* --------------------------------------------------- copying through NoOp

\* A caller that copies one source through a NoOp: it keeps one input cursor,
\* calls run as often as it likes, and at any time takes the bytes written so
\* far out of its output buffer and goes on with another one, of any capacity.
\* cyc.pieces holds the slices taken so far, the empty ones left out.
CopyInit ==
    /\ cyc = [pc |-> "copy", pieces |-> <<>>]
    /\ op = [kind |-> "NoOp", context |-> NoContext]
    /\ \E src \in Payloads : input = InBufferAround(src)
    /\ \E cap \in 0..MaxOut : output = OutBufferAround(Zeros(cap))
    /\ last = NoCall

\* noop.run(&mut input, &mut output).unwrap()
CopyRun ==
    /\ cyc.pc = "copy"
    /\ LET r == NoOpRun(op.context, input, output)
       IN  /\ op' = [op EXCEPT !.context = r.context]
           /\ input' = r.input
           /\ output' = r.output
           /\ last' = Called("run", FALSE, r.res)
           /\ cyc' = [cyc EXCEPT !.pc = IF r.res.tag = "Ok" THEN "copy" ELSE "failed"]

\* Another output buffer, of any capacity.
CopyNewOutput ==
    /\ cyc.pc = "copy"
    /\ cyc' = [cyc EXCEPT !.pieces = IF output.pos = 0 THEN @
                                      ELSE Append(@, AsSlice(output))]
    /\ \E cap \in 0..MaxOut : output' = OutBufferAround(Zeros(cap))
    /\ last' = NoCall
    /\ UNCHANGED <<op, input>>

CopyNext ==
    \/ CopyRun
    \/ CopyNewOutput

SpecCopy == CopyInit /\ [][CopyNext]_vars

\* ----------------------------------------------------- a loop over NoOp.run

\* The loop of tests::test_cycle around a NoOp: run is called, and then the
\* loop tests whether to stop.  The loop gated on "position" stops when the
\* input position has reached the input length, as the test's loops do; the
\* loop gated on "hint" stops when run has returned hint 0.  Every call gets
\* an output buffer with at least one writable byte: the caller replaces a
\* buffer that holds bytes, at the latest when it is full, by an empty one of
\* any capacity.
\* cyc.calls counts the calls of run.  The sources are up to MaxLoopLen bytes
\* long, so that the loop goes round several times.  MaxCalls bounds the
\* counter: a loop that has made so many calls is no longer followed.
MaxLoopLen == 3
MaxCalls == MaxLoopLen + 1
LoopSources == SeqsUpTo(Byte, MaxLoopLen)

LoopInit ==
    /\ \E gate \in {"position", "hint"}, cap \in 1..MaxOut :
          /\ cyc = [pc |-> "loop", gate |-> gate, calls |-> 0, pieces |-> <<>>]
          /\ output = OutBufferAround(Zeros(cap))
    /\ op = [kind |-> "NoOp", context |-> NoContext]
    /\ \E src \in LoopSources : input = InBufferAround(src)
    /\ last = NoCall

\* noop.run(&mut input, &mut output).unwrap(), and the test of the loop.
LoopRun ==
    /\ cyc.pc = "loop"
    /\ cyc.calls < MaxCalls
    /\ output.pos < Len(output.dst)
    /\ LET r == NoOpRun(op.context, input, output)
           stop == IF cyc.gate = "position" THEN r.input.pos = Len(r.input.src)
                   ELSE r.res.val = 0
       IN  /\ op' = [op EXCEPT !.context = r.context]
           /\ input' = r.input
           /\ output' = r.output
           /\ last' = Called("run", FALSE, r.res)
           /\ cyc' = [cyc EXCEPT !.calls = @ + 1,
                                 !.pc = IF r.res.tag # "Ok" THEN "failed"
                                        ELSE IF stop THEN "stopped" ELSE "loop"]

\* The caller takes the bytes of its output buffer and goes on with an empty
\* one.
LoopTake ==
    /\ cyc.pc = "loop"
    /\ output.pos > 0
    /\ cyc' = [cyc EXCEPT !.pieces = Append(@, AsSlice(output))]
    /\ \E cap \in 1..MaxOut : output' = OutBufferAround(Zeros(cap))
    /\ UNCHANGED <<op, input, last>>

LoopNext ==
    \/ LoopRun
    \/ LoopTake

\* The loop is straight-line code: while a step is possible, one is taken.
SpecLoop == LoopInit /\ [][LoopNext]_vars /\ WF_vars(LoopNext)

\* -------------------------------------------------------------- properties

\* The unread input and the writable output of the state a step starts from.
Unread == Len(input.src) - input.pos
Writable == Len(output.dst) - output.pos

\* C1: NoOp.run copies exactly n = min(unread input, writable output) bytes,
\* in order, from the input position to the output position, advances both
\* positions by n, and returns Ok(0), whether or not unread input remains.
C1_NoOpRunCopiesMin ==
    [][(op.kind = "NoOp" /\ last'.call = "run") =>
        LET n == IF Unread <= Writable THEN Unread ELSE Writable
        IN  /\ last'.res = Ok(0)
            /\ input'.pos = input.pos + n
            /\ output'.pos = output.pos + n
            /\ \A i \in 1..n : output'.dst[output.pos + i] = input.src[input.pos + i]
       ]_vars

\* A NoOp run has returned Ok(0) with the output filled, its last byte the
\* last input byte read, and a different input byte still unread.
C1_Witness ==
    /\ op.kind = "NoOp" /\ last.call = "run" /\ last.res = Ok(0)
    /\ input.pos > 0 /\ input.pos < Len(input.src)
    /\ output.pos = Len(output.dst)
    /\ output.dst[output.pos] = input.src[input.pos]
    /\ input.src[input.pos] # input.src[input.pos + 1]

\* C2: run, flush and finish, on any variant and in any sequence, leave each
\* cursor position at or above its value before the call and at most the
\* length of its buffer.
C2_CursorsMonotonicAndBounded ==
    [][last'.call \in {"run", "flush", "finish"} =>
        /\ input.pos <= input'.pos /\ input'.pos <= Len(input'.src)
        /\ output.pos <= output'.pos /\ output'.pos <= Len(output'.dst)
       ]_vars

\* A run has moved both cursors of a reused pair further on.
C2_Witness ==
    /\ last.call = "run" /\ last.res.tag = "Ok"
    /\ input.pos = MaxLen /\ output.pos = MaxOut /\ op.kind = "NoOp"

\* C3: NoOp.run leaves every output byte below the old position and at or
\* above the new position unchanged, leaves the input bytes and both buffer
\* lengths unchanged, and advances each position by exactly the number of
\* bytes copied: the bytes between the old and the new output position are the
\* input bytes between the old and the new input position.
C3_NoOpRunFrame ==
    [][(op.kind = "NoOp" /\ last'.call = "run") =>
        /\ input'.src = input.src
        /\ Len(output'.dst) = Len(output.dst)
        /\ \A i \in 1..Len(output.dst) :
              (i <= output.pos \/ i > output'.pos) => output'.dst[i] = output.dst[i]
        /\ output'.pos - output.pos = input'.pos - input.pos
        /\ SubSeq(output'.dst, output.pos + 1, output'.pos)
                = SubSeq(input.src, input.pos + 1, input'.pos)
       ]_vars

\* A NoOp run has written behind bytes an earlier run wrote and before bytes
\* that are still zero.
C3_Witness ==
    /\ op.kind = "NoOp" /\ last.call = "run"
    /\ output.pos = 1 /\ Len(output.dst) = MaxOut /\ output.dst[1] # 0
    /\ output.dst[MaxOut] = 0 /\ input.pos = Len(input.src)

\* C4: run_on_buffers wraps the two slices in cursors at position 0, calls run
\* once and returns Ok(Status{remaining: the hint of that run, bytes_read: the
\* input position, bytes_written: the output position}); an error of run is
\* returned as it is, with no Status.
C4_RunOnBuffers ==
    [][last'.call = "run_on_buffers" =>
        LET r == Run(op.kind, Before(last'.fault),
                     [src |-> input.src, pos |-> 0], [dst |-> output.dst, pos |-> 0])
        IN  /\ op'.context = r.context
            /\ input' = r.input
            /\ output' = r.output
            /\ Len(op'.context.log) <= 1
            /\ r.res.tag = "Ok" =>
                  last'.res = Ok([remaining |-> r.res.val, bytes_read |-> input'.pos,
                                  bytes_written |-> output'.pos])
            /\ r.res.tag # "Ok" => last'.res = r.res
       ]_vars

\* run_on_buffers has returned a Status whose three fields all differ.
C4_Witness ==
    /\ last.call = "run_on_buffers" /\ last.res.tag = "Ok"
    /\ last.res.val.bytes_read > 0
    /\ last.res.val.bytes_read # last.res.val.bytes_written
    /\ last.res.val.remaining # last.res.val.bytes_read
    /\ last.res.val.remaining # last.res.val.bytes_written

\* The bytes a run has to write to work off all its unread input.
Needed ==
    CASE op.kind = "NoOp" -> Unread
      [] op.kind = "Encoder" ->
            Len(op.context.buf) + (IF op.context.stage = "Fresh" THEN 1 ELSE 0) + Unread
      [] op.kind = "Decoder" ->
            Cardinality({i \in (input.pos + 1)..Len(input.src) : IsBODY(input.src[i])})
      [] OTHER -> 0

ExhaustedRun ==
    /\ last'.call = "run" /\ ~last'.fault
    /\ \/ op.kind = "NoOp" /\ (Writable = 0 \/ Unread = 0)
       \/ /\ op.kind = "Encoder" /\ op.context.stage \in {"Fresh", "Streaming"}
          /\ (Writable = 0 \/ Unread = 0)
       \/ /\ op.kind = "Decoder"
          /\ op.context.stage \in {"Ready", "Streaming", "Checksum"}
          /\ Unread = 0

EngineFunction(kind, call) ==
    CASE kind = "Encoder" /\ call = "run" -> "compress_stream"
      [] kind = "Encoder" /\ call = "flush" -> "flush_stream"
      [] kind = "Encoder" /\ call = "finish" -> "end_stream"
      [] kind = "Decoder" /\ call = "run" -> "decompress_stream"
      [] kind = "Decoder" /\ call = "reinit" -> "reset_dstream"
      [] OTHER -> "none"

\* C9: Encoder.run/flush/finish and Decoder.run/reinit call their engine
\* function exactly once; a non-success status it reports is the error the
\* call returns, and a success status is returned as Ok with the engine's value
\* (Ok(()) for reinit, which returns no value).
C9_EngineStatusPropagated ==
    [][EngineFunction(op.kind, last'.call) # "none" =>
        LET log == op'.context.log
        IN  /\ Len(log) = 1
            /\ log[1].fn = EngineFunction(op.kind, last'.call)
            /\ log[1].code >= ErrorBase => last'.res = Err(log[1].code)
            /\ log[1].code < ErrorBase =>
                  last'.res = IF last'.call = "reinit" THEN Ok(Unit) ELSE Ok(log[1].code)
       ]_vars

\* A Decoder's reinit has returned the error its engine reported.
C9_Witness ==
    /\ op.kind = "Decoder" /\ last.call = "reinit" /\ last.res.tag = "Err"
    /\ op.context.log = <<[fn |-> "reset_dstream", code |-> last.res.val]>>

\* C5: a payload S compressed by an Encoder of any valid level and dictionary
\* (run until the input is exhausted, finish until it returns 0) and
\* decompressed by a Decoder with the same dictionary (run until the input is
\* exhausted) comes out as S: no call fails, and the decoded bytes are S.
C5_RoundTrip ==
    cyc.encDict = cyc.decDict =>
        /\ cyc.pc # "failed"
        /\ cyc.pc = "done" => cyc.plain = cyc.data[1]

\* A cycle has ended with a payload of different bytes decoded, through output
\* buffers of one byte and with a dictionary.
C5_Witness ==
    /\ cyc.pc = "done" /\ cyc.encDict = cyc.decDict /\ cyc.encDict # <<>>
    /\ cyc.cap = 1 /\ Len(cyc.data[1]) = MaxLen /\ cyc.data[1][1] # cyc.data[1][2]
    /\ cyc.plain = cyc.data[1]

\* C6: two payloads compressed into two frames of their own, concatenated and
\* decompressed by one Decoder that is reinitialised when run reports 0 with
\* input left, come out as the first payload followed by the second; run
\* reports 0 with input left exactly at the end of the first frame.
C6_FrameConcatenation ==
    cyc.encDict = cyc.decDict =>
        /\ cyc.pc # "failed"
        /\ cyc.pc = "done" => cyc.plain = cyc.data[1] \o cyc.data[2]
        /\ cyc.pc = "reinit" =>
              /\ cyc.plain \o AsSlice(output) = cyc.data[1]
              /\ input.pos = Len(cyc.data[1]) + Len(<<HDR(0), END, CK(0)>>)

\* A cycle of two different, non-empty payloads has ended with both decoded.
C6_Witness ==
    /\ cyc.pc = "done" /\ cyc.encDict = cyc.decDict /\ Len(cyc.data) = 2
    /\ Len(cyc.data[1]) = MaxLen /\ cyc.data[2] # <<>>
    /\ cyc.data[1][1] # cyc.data[2][1]
    /\ cyc.plain = cyc.data[1] \o cyc.data[2]

\* C10: with a dictionary D on both sides the payload comes out exactly, as
\* it does without a dictionary; a Decoder with another dictionary or none
\* fails with an error from its run on input encoded with D, and decodes
\* nothing.
C10_DictionarySymmetry ==
    /\ (cyc.encDict # <<>> /\ cyc.decDict = cyc.encDict) =>
          /\ cyc.pc # "failed"
          /\ cyc.pc = "done" => cyc.plain = cyc.data[1]
    /\ (cyc.encDict # <<>> /\ cyc.decDict # cyc.encDict) =>
          /\ cyc.pc \notin {"done", "reinit"}
          /\ cyc.plain = <<>>
          /\ (op.kind = "Decoder" /\ last.call = "run") =>
                (last.res.tag = "Err" /\ cyc.pc = "failed" /\ output.pos = 0)

\* A Decoder without dictionary has failed in run on input encoded with one.
C10_Witness ==
    /\ cyc.pc = "failed" /\ cyc.encDict # <<>> /\ cyc.decDict = <<>>
    /\ op.kind = "Decoder" /\ last.call = "run" /\ last.res.tag = "Err"
    /\ cyc.data[1] # <<>>

\* What an engine context holds, apart from the record of the calls made.
EngineState(context) ==
    [dict |-> context.dict, level |-> context.level, stage |-> context.stage,
     buf |-> context.buf, sum |-> context.sum]

\* The methods each implementation takes from the trait's defaults.
Defaulted ==
    {<<"NoOp", "flush">>, <<"NoOp", "finish">>, <<"NoOp", "reinit">>,
     <<"Decoder", "flush">>, <<"Decoder", "finish">>, <<"Encoder", "reinit">>}

\* C11: the default flush and finish return Ok(0) and the default reinit
\* returns Ok(()), with no engine call and with the cursors and the operation's
\* state unchanged; NoOp takes all three defaults, Decoder those of flush and
\* finish, Encoder that of reinit; Encoder's flush and finish and Decoder's
\* reinit are overridden and call the engine.
C11_DefaultsAreNoOps ==
    [][last'.call \in {"flush", "finish", "reinit"} =>
        IF <<op.kind, last'.call>> \in Defaulted
        THEN /\ last'.res = IF last'.call = "reinit" THEN Ok(Unit) ELSE Ok(0)
             /\ output' = output
             /\ input' = input
             /\ op'.kind = op.kind
             /\ EngineState(op'.context) = EngineState(op.context)
             /\ op'.context.log = <<>>
        ELSE /\ Len(op'.context.log) = 1
             /\ op'.context.log[1].fn = EngineFunction(op.kind, last'.call)
       ]_vars

\* A Decoder in the middle of a frame, with a byte decoded, has been flushed
\* and has returned Ok(0).
C11_Witness ==
    /\ op.kind = "Decoder" /\ last.call = "flush" /\ last.res = Ok(0)
    /\ op.context.stage = "Streaming" /\ output.pos > 0

\* C12: an Encoder is constructed Fresh; a successful run takes it from Fresh
\* or Streaming to Streaming; a successful flush leaves its state as it is, in
\* Streaming in particular; a successful finish takes it from Fresh, Streaming
\* or Finishing to Finishing when it returns more than 0 and to Done when it
\* returns 0; and nothing else takes it to Finishing or Done.
C12_EncoderLifecycle ==
    [][/\ (op.kind = "None" /\ op'.kind = "Encoder") => op'.context.stage = "Fresh"
       /\ (op.kind = "Encoder" /\ last'.res.tag = "Ok") =>
            LET stage == op.context.stage
                stage2 == op'.context.stage
            IN  /\ last'.call = "run" =>
                      (stage \in {"Fresh", "Streaming"} /\ stage2 = "Streaming")
                /\ last'.call = "flush" => stage2 = stage
                /\ last'.call = "finish" =>
                      /\ stage \in {"Fresh", "Streaming", "Finishing"}
                      /\ stage2 = IF last'.res.val = 0 THEN "Done" ELSE "Finishing"
       /\ (op.kind = "Encoder" /\ op'.context.stage # op.context.stage
             /\ op'.context.stage \in {"Finishing", "Done"}) =>
            (last'.call = "finish" /\ last'.res.tag = "Ok")
      ]_vars

\* An Encoder that has taken input is Finishing: its finish has returned more
\* than 0, with the footer still held back.
C12_Witness ==
    /\ op.kind = "Encoder" /\ op.context.stage = "Finishing"
    /\ last.call = "finish" /\ last.res.tag = "Ok" /\ last.res.val > 0
    /\ input.pos > 0 /\ op.context.buf # <<>>

\* The stages of a Decoder inside a frame: the model's Checksum stage is the
\* tail of Streaming, in which the frame's footer is still to be read.
InFrame == {"Streaming", "Checksum"}

UnitComplete(kind, context, in) ==
    CASE kind = "Decoder" -> context.stage = "FrameComplete"
      [] kind = "Encoder" -> context.stage = "Done"
      [] kind = "NoOp" -> in.pos = Len(in.src)
      [] OTHER -> FALSE

Emitted == cyc.wire \o AsSlice(output)

\* C15: each flush and each finish of an Encoder returns the number of bytes
\* the engine still holds back after the call; a caller that keeps calling
\* flush with free output space sees it return 0, and so does one that keeps
\* calling finish; when finish has returned 0 the engine holds nothing back,
\* the bytes emitted are the whole frame of the payload, and the caller calls
\* nothing more on the instance.
C15_DrainReachesZero ==
    /\ [][last'.call \in {"flush", "finish"} =>
            last'.res = Ok(Len(op'.context.buf))]_vars
    /\ (cyc.pc = "flush") ~> (last.call = "flush" /\ last.res = Ok(0))
    /\ <>(cyc.pc = "finished")
    /\ [](cyc.pc = "finished" =>
            /\ last.call = "finish" /\ last.res = Ok(0)
            /\ op.context.buf = <<>>
            /\ Emitted = EncodedFrame(cyc.data[1], cyc.encDict))
    /\ [][cyc.pc = "finished" => UNCHANGED vars]_vars

\* A frame has been completed through output buffers of one byte, by a finish
\* that returned 0 after a finish that could not yet emit all of the footer.
C15_Witness ==
    /\ cyc.pc = "finished" /\ cyc.cap = 1 /\ Len(cyc.data[1]) = MaxLen
    /\ last.call = "finish" /\ last.res = Ok(0)
    /\ Emitted = EncodedFrame(cyc.data[1], cyc.encDict)
    /\ op.context.stage = "Done"

\* The constructors, and the kind of operation each one makes.
Constructors ==
    [name \in {"Encoder::new", "Encoder::with_dictionary",
               "Decoder::new", "Decoder::with_dictionary"} |->
        IF name \in {"Encoder::new", "Encoder::with_dictionary"}
        THEN "Encoder" ELSE "Decoder"]

\* C16: a constructor called with a level or a dictionary the engine rejects
\* returns the engine's error and leaves the caller without an instance; called
\* with ones the engine accepts it returns an instance whose context has been
\* initialised once, with that dictionary (and level); Encoder::new(level) is
\* Encoder::with_dictionary(level, empty) and Decoder::new() is
\* Decoder::with_dictionary(empty).
C16_ConstructionAllOrNothing ==
    /\ \A level \in Levels : EncoderNew(level) = EncoderWithDictionary(level, <<>>)
    /\ DecoderNew = DecoderWithDictionary(<<>>)
    /\ \A level \in Levels, dictionary \in Dicts :
          /\ (EncoderWithDictionary(level, dictionary).res.tag = "Err")
                <=> (~ValidLevel(level) \/ ~ValidDict(dictionary))
          /\ (DecoderWithDictionary(dictionary).res.tag = "Err")
                <=> ~ValidDict(dictionary)
    /\ [][last'.call \in DOMAIN Constructors =>
            \E level \in Levels, dictionary \in Dicts :
                LET kind == Constructors[last'.call]
                    rejected == \/ kind = "Encoder" /\ ~ValidLevel(level)
                                \/ ~ValidDict(dictionary)
                    init == IF kind = "Encoder" THEN "init_cstream_using_dict"
                            ELSE "init_dstream_using_dict"
                IN  /\ last'.call \in {"Encoder::new", "Decoder::new"} =>
                          dictionary = <<>>
                    /\ rejected =>
                          /\ last'.res.tag = "Err"
                          /\ last'.res.val \in {ErrParameter, ErrDictionary}
                          /\ op' = op /\ op'.kind = "None"
                    /\ ~rejected =>
                          /\ last'.res = Ok(Unit)
                          /\ op'.kind = kind
                          /\ op'.context.dict = dictionary
                          /\ kind = "Encoder" => op'.context.level = level
                          /\ op'.context.stage =
                                IF kind = "Encoder" THEN "Fresh" ELSE "Ready"
                          /\ Len(op'.context.log) = 1
                          /\ op'.context.log[1].fn = init
                          /\ ~is_error(op'.context.log[1].code)
         ]_vars

\* Encoder::with_dictionary has returned the engine's error for a dictionary
\* it rejects, and the caller holds no operation.
C16_Witness ==
    /\ op.kind = "None" /\ last.call = "Encoder::with_dictionary"
    /\ last.res = Err(ErrDictionary)

\* C17: a successful reinit of a Decoder, in whatever state and after however
\* many earlier reinit calls, leaves it with the dictionary it was constructed
\* with and otherwise in the state of a Decoder freshly constructed with that
\* dictionary, so that what it decodes from then on is what the fresh Decoder
\* would decode.
C17_ReinitKeepsDictionary ==
    [][(op.kind = "Decoder" /\ last'.call = "reinit" /\ last'.res.tag = "Ok") =>
        /\ op'.context.dict = op.context.dict
        /\ EngineState(op'.context)
              = EngineState(DecoderWithDictionary(op.context.dict).context)
        /\ \A src \in Sources("Decoder"), cap \in 0..MaxOut :
              LET i == InBufferAround(src)
                  o == OutBufferAround(Zeros(cap))
                  here == DecoderRun(op'.context, i, o)
                  fresh == DecoderRun(DecoderWithDictionary(op.context.dict).context, i, o)
              IN  /\ here.res = fresh.res
                  /\ here.input = fresh.input
                  /\ here.output = fresh.output
       ]_vars

\* A Decoder with a dictionary has been reinitialised after the last token of
\* a frame, with a byte of that frame decoded.
C17_Witness ==
    /\ op.kind = "Decoder" /\ op.context.dict # <<>>
    /\ last.call = "reinit" /\ last.res = Ok(Unit)
    /\ input.pos = 1 /\ IsCK(input.src[1])
    /\ output.pos > 0
    /\ op.context.stage = "Ready"

\* C18: while one source is copied through a NoOp, with one input cursor and
\* output buffers of any capacities, the bytes written so far are the bytes of
\* the source up to the input position, in their order, and no run fails.
C18_NoOpCopiesPrefix ==
    /\ cyc.pc = "copy"
    /\ Concat(cyc.pieces) \o AsSlice(output) = SubSeq(input.src, 1, input.pos)

\* A source of two different bytes has been copied whole, its first byte
\* through one output buffer and its last through another.
C18_Witness ==
    /\ cyc.pc = "copy" /\ Len(input.src) = MaxLen /\ input.pos = MaxLen
    /\ input.src[1] # input.src[MaxLen]
    /\ cyc.pieces = <<SubSeq(input.src, 1, MaxLen - 1)>>
    /\ last.call = "run"
    /\ AsSlice(output) = <<input.src[MaxLen]>>

\* The bytes a loop has copied.
Copied == Concat(cyc.pieces) \o AsSlice(output)

\* C19 as stated: the loop gated on the input position stops after at most
\* len(input.src) calls with the whole input copied, and the loop gated on
\* the hint stops after its first call.
C19_LoopStopsWithinLenCalls ==
    /\ <>(cyc.pc = "stopped")
    /\ [](cyc.gate = "position" => cyc.calls <= Len(input.src))
    /\ []((cyc.gate = "position" /\ cyc.pc = "stopped") => Copied = input.src)
    /\ []((cyc.gate = "hint" /\ cyc.pc = "stopped") => cyc.calls = 1)

\* C19, amended: the loop gated on the input position stops with the whole
\* input copied after at most len(input.src) calls, or after its one call
\* when the input is empty, since the loop calls before it tests; the loop
\* gated on the hint stops after its first call, with only as much copied as
\* that call's output had room for.
C19_LoopStops ==
    /\ <>(cyc.pc = "stopped")
    /\ [](cyc.pc \in {"loop", "stopped"})
    /\ [](cyc.gate = "position" =>
            cyc.calls <= (IF Len(input.src) = 0 THEN 1 ELSE Len(input.src)))
    /\ []((cyc.gate = "position" /\ cyc.pc = "stopped") =>
            (Copied = input.src /\ input.pos = Len(input.src)))
    /\ []((cyc.gate = "hint" /\ cyc.pc = "stopped") =>
            /\ cyc.calls = 1
            /\ Copied = SubSeq(input.src, 1, Min(Len(input.src), Len(output.dst))))

\* The loop gated on the hint has stopped after one call with a byte of the
\* input unread, and the loop gated on the position would have gone on.
C19_Witness ==
    /\ cyc.pc = "stopped" /\ cyc.gate = "hint" /\ cyc.calls = 1
    /\ last.call = "run" /\ last.res = Ok(0)
    /\ input.pos = 1 /\ Len(input.src) = MaxLoopLen

====
